---- MODULE Spec2Model ----
(***************************************************************************)
(* A model of the two navigation engines of webview-navigation-engine.     *)
(*                                                                         *)
(*  - the stack engine (core/NavigationEngine.ts): historyStack,           *)
(*    overlayStack, the active flow context; specification Spec.           *)
(*  - the index engine (history + currentIndex and the snapshot kept in   *)
(*    sessionStorage); specification SpecIndex.                            *)
(*  - each engine with listeners registered on it, on shorter stacks:      *)
(*    specifications SpecSubscribed and SpecIndexListeners.                *)
(*  - the index engine with its flow registry: specification              *)
(*    SpecIndexFlows.                                                      *)
(*  - the index engine constructed over whatever the storage key holds,    *)
(*    with state payloads, failing writes and reloads: specification       *)
(*    SpecIndexStorage.                                                    *)
(*                                                                         *)
(* Every public method is a pure operator from the state before the call   *)
(* (and the arguments) to the state after it, together with what the call  *)
(* did on the way (threw, notifications, callbacks invoked, value          *)
(* returned).  The actions apply these operators to the variables; each    *)
(* specification leaves the other engine's variables alone.                *)
(***************************************************************************)
EXTENDS Integers, Sequences, FiniteSets, TLC

VARIABLES
    isInitialized,  \* stack engine: setup has been called
    historyStack,   \* stack engine: sequence of page ids, top is the last
    overlayStack,   \* stack engine: sequence of overlays, top is the last
    activeFlow,     \* stack engine: ActiveFlowContext or NoCtx
    listeners,      \* stack engine: the Set of listeners, in insertion order
    history,        \* index engine: sequence of entries
    currentIndex,   \* index engine: 0-based index into history, -1 if empty
    storage,        \* index engine: value under the sessionStorage key
    indexListeners, \* index engine: the Set of listeners, in insertion order
    indexFlows,     \* index engine: the Map of flows, in insertion order
    isPopStateProcessing, \* Vue adapter: a popstate event is being handled
    pendingTimers,  \* Vue adapter: setTimeout callbacks not yet run
    prevStackLength,\* Vue adapter: historyStack.length last seen
    currentRoute    \* Vue adapter: router.currentRoute.value.path

stackVars == <<isInitialized, historyStack, overlayStack, activeFlow,
               listeners>>
indexVars == <<history, currentIndex, storage, indexListeners, indexFlows>>
adapterVars == <<isPopStateProcessing, pendingTimers, prevStackLength,
                 currentRoute>>
vars == <<isInitialized, historyStack, overlayStack, activeFlow, listeners,
          history, currentIndex, storage, indexListeners, indexFlows,
          isPopStateProcessing, pendingTimers, prevStackLength, currentRoute>>

-----------------------------------------------------------------------------
(* Bounds of the model.                                                    *)
MaxHistory == 3     \* longest historyStack the actions build
MaxOverlays == 2    \* longest overlayStack the actions build
MaxEntries == 3     \* longest index-engine history the actions build
\* The same three lengths while listeners are registered.
MaxSubscribedHistory == 2
MaxSubscribedOverlays == 1
MaxSubscribedEntries == 2
\* The longest index-engine history built while flows are registered.
MaxFlowEntries == 2
\* The longest index-engine history built while writes may fail.
MaxStoredEntries == 2
\* The longest history of a stored item that the engine did not write.
MaxShapedEntries == 2
\* The longest historyStack built under the Vue adapter.
MaxVueHistory == 3
\* The most overlays open at once under the Vue adapter.
MaxVueOverlays == 1
\* The most popstate timers waiting at once.
MaxVueTimers == 2

-----------------------------------------------------------------------------
(* Values.                                                                 *)

\* JavaScript null / undefined where a string is expected.
Null == "<null>"
\* activeFlow === null
NoCtx == [null |-> TRUE]
\* findFlowByPage(...) === null
NoFlowDef == [null |-> TRUE]
\* sessionStorage.getItem(key) === null
NoItem == [none |-> TRUE]
\* getCurrent() === null
NoEntry == [null |-> TRUE]

\* JavaScript truthiness of a string-or-null value: if (x) ...
Truthy(x) == x # Null /\ x # ""

\* Page ids are route names: non-empty strings.
Pages == {"Main", "Home", "Input", "Detail", "Confirm", "Kyc"}

\* config.mainPage
mainPage == "Main"

\* config.flows, in registration order.  As in the sample application, the
\* steps of a flow are distinct and no page is a step of two flows.
flows ==
    << [name |-> "pay", steps |-> <<"Input", "Detail", "Confirm">>],
       [name |-> "kyc", steps |-> <<"Kyc">>] >>

\* Overlay objects: an id and an onBack callback (cb names the closure).
\* An id may be the empty string; the same overlay may be opened twice.
OverlayObjects ==
    { [id |-> "sheet", cb |-> "cb1"],
      [id |-> "",      cb |-> "cb2"] }

\* Arguments tried for exitFlow(flowName?): omitted, the registered names,
\* an unregistered name, the empty string.
FlowNameArgs == {Null, "pay", "kyc", "nope", ""}

Methods == {"push", "replace"}

\* Listener functions: "view" returns normally, "faulty" throws whenever it
\* is called.
ListenerFns == {"view", "faulty"}
Throws(fn) == fn = "faulty"

\* Where a forEach over the listeners ls, calling each without protection,
\* is cut short: the position of the first listener that throws, 0 if none.
firstThrower(ls) ==
    IF \E i \in 1..Len(ls) : Throws(ls[i])
    THEN CHOOSE i \in 1..Len(ls) :
             Throws(ls[i]) /\ \A j \in 1..(i - 1) : ~Throws(ls[j])
    ELSE 0

-----------------------------------------------------------------------------
(* Array helpers, as JavaScript computes them (0-based results).           *)

includes(seq, x) == \E i \in 1..Len(seq) : seq[i] = x

indexOf(seq, x) ==
    IF includes(seq, x)
    THEN (CHOOSE i \in 1..Len(seq) :
              seq[i] = x /\ \A j \in 1..(i - 1) : seq[j] # x) - 1
    ELSE -1

Front(seq) == SubSeq(seq, 1, Len(seq) - 1)

\* Array.prototype.pop(): drops the last element, no effect on [].
popped(seq) == IF Len(seq) = 0 THEN seq ELSE Front(seq)

-----------------------------------------------------------------------------
(* Stack engine: internal helpers.                                         *)

\* The engine's fields as one value.
Engine(init, h, o, f) ==
    [isInitialized |-> init, historyStack |-> h, overlayStack |-> o,
     activeFlow |-> f]

Cur == Engine(isInitialized, historyStack, overlayStack, activeFlow)

\* What a call does besides changing the fields.
Outcome(e, threw, notified, called) ==
    [eng |-> e, threw |-> threw, notified |-> notified, called |-> called]

getCurrentPage(h) == IF Len(h) = 0 THEN Null ELSE h[Len(h)]

findFlowByPage(pageId) ==
    IF ~Truthy(pageId) THEN NoFlowDef
    ELSE IF \E i \in 1..Len(flows) : includes(flows[i].steps, pageId)
         THEN flows[CHOOSE i \in 1..Len(flows) :
                        /\ includes(flows[i].steps, pageId)
                        /\ \A j \in 1..(i - 1) : ~includes(flows[j].steps, pageId)]
         ELSE NoFlowDef

\* A plausible slip: the entry page is recorded whatever the method.
entryPageForAnyMethod(prevPage, method) == prevPage

\* Case B of createFlowContextForPage: the entry page of a newly entered flow.
entryPageFor(prevPage, method) == IF method = "push" THEN prevPage ELSE Null

createFlowContextForPage(active, pageId, prevPage, method) ==
    LET flow == findFlowByPage(pageId) IN
    IF flow = NoFlowDef THEN NoCtx
    ELSE LET index == indexOf(flow.steps, pageId)
             isSameFlow == active # NoCtx /\ active.name = flow.name
         IN IF isSameFlow
            THEN [name |-> active.name, steps |-> flow.steps,
                  currentStepIndex |-> index,
                  entryPageId |-> active.entryPageId]
            ELSE [name |-> flow.name, steps |-> flow.steps,
                  currentStepIndex |-> index,
                  entryPageId |-> entryPageFor(prevPage, method)]

\* A plausible slip: the first step pops but the flow context is kept.
firstStepBackKeepsFlow(e, ctx) ==
    IF Truthy(ctx.entryPageId)
    THEN [handled |-> TRUE, eng |-> [e EXCEPT !.historyStack = popped(@)]]
    ELSE [handled |-> TRUE, eng |-> e]

\* The other policy for a first step without entry page: not handled, so
\* handleBack goes on to the generic pop.
firstStepBackFallsThrough(e, ctx) ==
    IF Truthy(ctx.entryPageId)
    THEN [handled |-> TRUE,
          eng |-> [e EXCEPT !.historyStack = popped(@), !.activeFlow = NoCtx]]
    ELSE [handled |-> FALSE, eng |-> e]

\* Case 2 of tryHandleFlowBack: back on the first step of the flow.
firstStepBack(e, ctx) ==
    IF Truthy(ctx.entryPageId)
    THEN [handled |-> TRUE,
          eng |-> [e EXCEPT !.historyStack = popped(@), !.activeFlow = NoCtx]]
    ELSE [handled |-> TRUE, eng |-> e]

\* Case 1 of tryHandleFlowBack: back on step idx > 0 of the flow.
laterStepBack(e, ctx, idx) ==
    [handled |-> TRUE,
     eng |-> [e EXCEPT !.historyStack = popped(@),
                       !.activeFlow = [ctx EXCEPT !.currentStepIndex = idx - 1]]]

\* Returns whether the back was handled, and the fields it leaves.
tryHandleFlowBack(e, current) ==
    LET ctx == e.activeFlow
        unhandled == [handled |-> FALSE, eng |-> e]
    IN IF ctx = NoCtx \/ ~includes(ctx.steps, current) THEN unhandled
       ELSE LET idx == indexOf(ctx.steps, current) IN
            IF idx < 0 THEN unhandled
            ELSE IF idx > 0 THEN laterStepBack(e, ctx, idx)
            ELSE firstStepBack(e, ctx)

-----------------------------------------------------------------------------
(* Stack engine: public methods.                                           *)

\* setup(config, initialPage?) with config = {mainPage, flows}.
setup(e, initialPage) ==
    LET firstPage == IF initialPage = Null THEN mainPage ELSE initialPage IN
    IF ~Truthy(firstPage) THEN Outcome(e, TRUE, 0, <<>>)
    ELSE Outcome([e EXCEPT !.historyStack = <<firstPage>>,
                           !.activeFlow =
                               createFlowContextForPage(e.activeFlow, firstPage,
                                                        Null, "push"),
                           !.isInitialized = TRUE],
                 FALSE, 1, <<>>)

navigateTo(e, pageId, method) ==
    IF ~e.isInitialized THEN Outcome(e, TRUE, 0, <<>>)
    ELSE LET prevPage == getCurrentPage(e.historyStack)
             isLastReplaceNeeded == method = "replace" /\ Len(e.historyStack) > 0
             h == IF isLastReplaceNeeded
                  THEN [e.historyStack EXCEPT ![Len(e.historyStack)] = pageId]
                  ELSE Append(e.historyStack, pageId)
         IN Outcome([e EXCEPT !.historyStack = h,
                              !.activeFlow =
                                  createFlowContextForPage(e.activeFlow, pageId,
                                                           prevPage, method)],
                    FALSE, 1, <<>>)

openOverlay(e, overlay) ==
    Outcome([e EXCEPT !.overlayStack = Append(@, overlay)], FALSE, 1, <<>>)

\* closeOverlay(id?): id = Null stands for the omitted argument.
closeOverlay(e, id) ==
    Outcome([e EXCEPT !.overlayStack =
                 IF Truthy(id) THEN SelectSeq(@, LAMBDA o : o.id # id)
                 ELSE popped(@)],
            FALSE, 1, <<>>)

\* A plausible slip: an if where the loop should be (one pop at most).
popOnceIfInFlow(h, steps) ==
    IF Len(h) > 0 /\ includes(steps, h[Len(h)]) THEN Front(h) ELSE h

\* A plausible slip: the clean-up loop left out.
popNothing(h, steps) == h

RECURSIVE popWhileInFlow(_, _)
\* The while loop of exitFlow: pop while the top belongs to the steps.
popWhileInFlow(h, steps) ==
    IF Len(h) > 0 /\ includes(steps, h[Len(h)])
    THEN popWhileInFlow(Front(h), steps)
    ELSE h

\* exitFlow(flowName?): flowName = Null stands for the omitted argument.
exitFlow(e, flowName) ==
    IF ~e.isInitialized THEN Outcome(e, TRUE, 0, <<>>)
    ELSE IF e.activeFlow = NoCtx THEN Outcome(e, FALSE, 0, <<>>)
    ELSE IF Truthy(flowName) /\ e.activeFlow.name # flowName
    THEN Outcome(e, FALSE, 0, <<>>)
    ELSE LET firstStep == e.activeFlow.steps[1]
             h == Append(popWhileInFlow(e.historyStack, e.activeFlow.steps),
                         firstStep)
         IN Outcome([e EXCEPT !.historyStack = h,
                              !.activeFlow = [@ EXCEPT !.currentStepIndex = 0]],
                    FALSE, 1, <<>>)

\* A plausible slip: shift() for pop(), the oldest overlay is dismissed.
overlayBackOldest(e) ==
    Outcome([e EXCEPT !.overlayStack = Tail(@)], FALSE, 1,
            <<e.overlayStack[1]>>)

\* Step 1 of handleBack with an overlay open: pop it, call its onBack, notify.
overlayBack(e) ==
    Outcome([e EXCEPT !.overlayStack = Front(@)], FALSE, 1,
            <<e.overlayStack[Len(e.overlayStack)]>>)

\* handleBack(); the onBack callbacks do not call back into the engine.
handleBack(e) ==
    IF ~e.isInitialized THEN Outcome(e, TRUE, 0, <<>>)
    ELSE IF Len(e.overlayStack) > 0 THEN overlayBack(e)
    ELSE LET current == getCurrentPage(e.historyStack) IN
         IF ~Truthy(current) THEN Outcome(e, FALSE, 0, <<>>)
         ELSE LET fb == tryHandleFlowBack(e, current) IN
              IF fb.handled THEN Outcome(fb.eng, FALSE, 1, <<>>)
              ELSE IF current = mainPage THEN Outcome(e, FALSE, 0, <<>>)
              ELSE IF Len(e.historyStack) > 1
              THEN LET h == Front(e.historyStack)
                       newCurrent == getCurrentPage(h)
                   IN Outcome([e EXCEPT !.historyStack = h,
                                        !.activeFlow =
                                            IF Truthy(newCurrent)
                                            THEN createFlowContextForPage(
                                                     e.activeFlow, newCurrent,
                                                     Null, "replace")
                                            ELSE NoCtx],
                              FALSE, 1, <<>>)
              ELSE Outcome(e, FALSE, 0, <<>>)

-----------------------------------------------------------------------------
(* Stack engine: listeners.                                                *)

\* getState(): the snapshot handed to the listeners.
getState(e) ==
    [current |-> getCurrentPage(e.historyStack),
     historyStack |-> e.historyStack,
     overlayStack |-> e.overlayStack]

\* notify(): one snapshot, then each listener in insertion order, called
\* without protection: a listener that throws ends the loop and the
\* exception leaves notify().  received lists the calls made.
notify(ls, e) ==
    LET k == firstThrower(ls)
        called == IF k = 0 THEN ls ELSE SubSeq(ls, 1, k)
    IN [received |-> [i \in 1..Len(called) |->
                         [listener |-> called[i], state |-> getState(e)]],
        threw |-> k # 0]

\* A method called while the listeners ls are subscribed.  Every method
\* calls notify() as its last statement, after all its assignments, so the
\* fields are those of out whether or not notify() throws.
Delivered(ls, out) ==
    IF out.notified = 0
    THEN [eng |-> out.eng, threw |-> out.threw, received |-> <<>>]
    ELSE LET n == notify(ls, out.eng)
         IN [eng |-> out.eng, threw |-> n.threw, received |-> n.received]

\* subscribe(listener): Set.add (no effect on a member), then the listener
\* is called with the current state; if it throws, so does subscribe and no
\* detach function is returned.
subscribe(ls, e, listener) ==
    [listeners |-> IF includes(ls, listener) THEN ls ELSE Append(ls, listener),
     received |-> <<[listener |-> listener, state |-> getState(e)]>>,
     threw |-> Throws(listener)]

\* The function returned by subscribe(listener): Set.delete.
unsubscribe(ls, listener) == SelectSeq(ls, LAMBDA l : l # listener)

-----------------------------------------------------------------------------
(* Stack engine: the state machine.                                        *)

\* The fields after a call.
Becomes(out) ==
    /\ isInitialized' = out.eng.isInitialized
    /\ historyStack' = out.eng.historyStack
    /\ overlayStack' = out.eng.overlayStack
    /\ activeFlow' = out.eng.activeFlow
    /\ listeners' = listeners
    /\ UNCHANGED <<indexVars, adapterVars>>

\* setupNavigationWithVue has not been called: no popstate handler, no
\* timer, no subscription.
AdapterAbsent ==
    /\ isPopStateProcessing = FALSE
    /\ pendingTimers = 0
    /\ prevStackLength = 0
    /\ currentRoute = Null

\* new NavigationEngine(): the field initialisers.
Init ==
    /\ isInitialized = FALSE
    /\ historyStack = <<>>
    /\ overlayStack = <<>>
    /\ activeFlow = NoCtx
    /\ listeners = <<>>
    /\ history = <<>>
    /\ currentIndex = -1
    /\ storage = NoItem
    /\ indexListeners = <<>>
    /\ indexFlows = <<>>
    /\ AdapterAbsent

\* setup is the one-time initialisation: called once, on a fresh engine.
Setup ==
    /\ ~isInitialized
    /\ \E initialPage \in Pages \cup {Null} : Becomes(setup(Cur, initialPage))

NavigateTo ==
    \E pageId \in Pages, method \in Methods :
        LET out == navigateTo(Cur, pageId, method) IN
        /\ Len(out.eng.historyStack) <= MaxHistory
        /\ Becomes(out)

OpenOverlay ==
    /\ Len(overlayStack) < MaxOverlays
    /\ \E overlay \in OverlayObjects : Becomes(openOverlay(Cur, overlay))

CloseOverlay ==
    \E id \in {Null} \cup {o.id : o \in OverlayObjects} \cup {"menu"} :
        Becomes(closeOverlay(Cur, id))

ExitFlow ==
    \E flowName \in FlowNameArgs :
        LET out == exitFlow(Cur, flowName) IN
        /\ Len(out.eng.historyStack) <= MaxHistory
        /\ Becomes(out)

HandleBack == Becomes(handleBack(Cur))

Next ==
    \/ Setup
    \/ NavigateTo
    \/ OpenOverlay
    \/ CloseOverlay
    \/ ExitFlow
    \/ HandleBack

\* The engine with no listener subscribed.
Spec == Init /\ [][Next]_vars

Subscribe ==
    \E listener \in ListenerFns :
        /\ listeners' = subscribe(listeners, Cur, listener).listeners
        /\ UNCHANGED <<isInitialized, historyStack, overlayStack, activeFlow,
                       indexVars, adapterVars>>

\* A detach function is called: one exists for a listener whose subscribe
\* returned; calling it for a listener no longer in the Set changes nothing.
Unsubscribe ==
    \E listener \in ListenerFns :
        /\ ~Throws(listener)
        /\ listeners' = unsubscribe(listeners, listener)
        /\ UNCHANGED <<isInitialized, historyStack, overlayStack, activeFlow,
                       indexVars, adapterVars>>

SubscribedNavigateTo ==
    \E pageId \in Pages, method \in Methods :
        LET out == navigateTo(Cur, pageId, method) IN
        /\ Len(out.eng.historyStack) <= MaxSubscribedHistory
        /\ Becomes(out)

SubscribedOpenOverlay ==
    /\ Len(overlayStack) < MaxSubscribedOverlays
    /\ \E overlay \in OverlayObjects : Becomes(openOverlay(Cur, overlay))

SubscribedExitFlow ==
    \E flowName \in FlowNameArgs :
        LET out == exitFlow(Cur, flowName) IN
        /\ Len(out.eng.historyStack) <= MaxSubscribedHistory
        /\ Becomes(out)

NextSubscribed ==
    \/ Subscribe
    \/ Unsubscribe
    \/ Setup
    \/ SubscribedNavigateTo
    \/ SubscribedOpenOverlay
    \/ CloseOverlay
    \/ SubscribedExitFlow
    \/ HandleBack

\* The engine with listeners coming and going.
SpecSubscribed == Init /\ [][NextSubscribed]_vars

-----------------------------------------------------------------------------
(* Vue adapter: the engine, the router and the popstate handler.           *)

\* router.getRoutes(): the pages that have a route with a name and a path.
RoutedPages == {"Main", "Home", "Input"}

\* Page ids the application navigates to; "Kyc" has no route.
VuePages == RoutedPages \cup {"Kyc"}

\* pageToPath.get(pageId): Null stands for undefined.
pageToPath(pageId) ==
    IF pageId = "Main" THEN "/main"
    ELSE IF pageId = "Home" THEN "/home"
    ELSE IF pageId = "Input" THEN "/payment/input"
    ELSE Null

Paths == { pageToPath(p) : p \in RoutedPages }

\* pathToPage.get(path)
pathToPage(path) ==
    IF \E p \in RoutedPages : pageToPath(p) = path
    THEN CHOOSE p \in RoutedPages : pageToPath(p) = path
    ELSE Null

\* Overlays opened by the application: the onBack of "sheet" hides a
\* component, the onBack of "leave" calls the adapter's navigate("Home").
VueOverlays ==
    { [id |-> "sheet", cb |-> "hide"],
      [id |-> "leave", cb |-> "goHome"] }

\* The closure variables of setupNavigationWithVue and the router's route.
VueAdapter(flag, timers, len, route) ==
    [isPopStateProcessing |-> flag, pendingTimers |-> timers,
     prevStackLength |-> len, route |-> route]

CurAdapter ==
    VueAdapter(isPopStateProcessing, pendingTimers, prevStackLength,
               currentRoute)

\* What a step leaves: the engine, the adapter, the router calls made.
Synced(e, ad, calls) == [eng |-> e, ad |-> ad, calls |-> calls]

\* router.push(path) / router.replace(path): the route becomes path.
routed(ad, calls, method, path) ==
    [ad |-> [ad EXCEPT !.route = path],
     calls |-> Append(calls, [method |-> method, path |-> path])]

\* The listener given to navigationEngine.subscribe.
routerListener(ad, calls, state) ==
    LET pageId == state.current
        targetPath == pageToPath(pageId)
        len == Len(state.historyStack)
        seen == [ad EXCEPT !.prevStackLength = len]
    IN IF ~Truthy(pageId) THEN [ad |-> ad, calls |-> calls]
       ELSE IF ~Truthy(targetPath) THEN [ad |-> ad, calls |-> calls]
       ELSE IF ad.isPopStateProcessing
       THEN IF ad.route # targetPath
            THEN routed(seen, calls, "replace", targetPath)
            ELSE [ad |-> seen, calls |-> calls]
       ELSE IF ad.route # targetPath
       THEN IF len > ad.prevStackLength
            THEN routed(seen, calls, "push", targetPath)
            ELSE routed(seen, calls, "replace", targetPath)
       ELSE [ad |-> seen, calls |-> calls]

\* An engine method called while the adapter is subscribed: notify() runs
\* the listener with the new state.
VueCall(ad, calls, out) ==
    IF out.notified = 0 THEN Synced(out.eng, ad, calls)
    ELSE LET l == routerListener(ad, calls, getState(out.eng))
         IN Synced(out.eng, l.ad, l.calls)

\* handleBack() with the application's overlays: the onBack of "leave"
\* calls navigate("Home", "push") before handleBack notifies.
backWithCallbacks(ad, calls, e) ==
    IF /\ Len(e.overlayStack) > 0
       /\ e.overlayStack[Len(e.overlayStack)].cb = "goHome"
    THEN LET afterPop == overlayBack(e).eng
             nav == VueCall(ad, calls, navigateTo(afterPop, "Home", "push"))
         IN VueCall(nav.ad, nav.calls, Outcome(nav.eng, FALSE, 1, <<>>))
    ELSE VueCall(ad, calls, handleBack(e))

\* The popstate listener, the browser having gone to path: the flag is
\* set, handleBack() runs, a blocked back is undone with router.push, a
\* zero-delay timer is started.
popstate(ad, e, path) ==
    LET ad1 == [ad EXCEPT !.isPopStateProcessing = TRUE, !.route = path]
        prevState == getState(e)
        b == backWithCallbacks(ad1, <<>>, e)
        nextState == getState(b.eng)
        currentPath == pageToPath(nextState.current)
        r == IF prevState.current = nextState.current /\ Truthy(currentPath)
             THEN routed(b.ad, b.calls, "push", currentPath)
             ELSE [ad |-> b.ad, calls |-> b.calls]
    IN Synced(b.eng, [r.ad EXCEPT !.pendingTimers = @ + 1], r.calls)

\* setupNavigationWithVue(router, config), the router being at path: the
\* engine is set up on the page of the path (mainPage when the path has
\* none), and subscribe calls the listener with that first state.
setupNavigationWithVue(path) ==
    LET e == setup(Engine(FALSE, <<>>, <<>>, NoCtx), pathToPage(path)).eng
        ad == VueAdapter(FALSE, 0, Len(e.historyStack), path)
        l == routerListener(ad, <<>>, getState(e))
    IN Synced(e, l.ad, l.calls)

\* The fields and the closure variables after a step.
VueBecomes(r) ==
    /\ isInitialized' = r.eng.isInitialized
    /\ historyStack' = r.eng.historyStack
    /\ overlayStack' = r.eng.overlayStack
    /\ activeFlow' = r.eng.activeFlow
    /\ isPopStateProcessing' = r.ad.isPopStateProcessing
    /\ pendingTimers' = r.ad.pendingTimers
    /\ prevStackLength' = r.ad.prevStackLength
    /\ currentRoute' = r.ad.route
    /\ UNCHANGED <<listeners, indexVars>>

\* The application after setupNavigationWithVue, loaded at a routed path
\* or at "/" (which has no name).
InitVue ==
    \E path \in Paths \cup {"/"} :
        LET r == setupNavigationWithVue(path) IN
        /\ isInitialized = r.eng.isInitialized
        /\ historyStack = r.eng.historyStack
        /\ overlayStack = r.eng.overlayStack
        /\ activeFlow = r.eng.activeFlow
        /\ listeners = <<"routerListener">>
        /\ history = <<>>
        /\ currentIndex = -1
        /\ storage = NoItem
        /\ indexListeners = <<>>
        /\ indexFlows = <<>>
        /\ isPopStateProcessing = r.ad.isPopStateProcessing
        /\ pendingTimers = r.ad.pendingTimers
        /\ prevStackLength = r.ad.prevStackLength
        /\ currentRoute = r.ad.route

\* The adapter's navigate(pageId, method).
VueNavigate ==
    \E pageId \in VuePages, method \in Methods :
        LET r == VueCall(CurAdapter, <<>>, navigateTo(Cur, pageId, method)) IN
        /\ Len(r.eng.historyStack) <= MaxVueHistory
        /\ VueBecomes(r)

\* The adapter's goBack().
VueGoBack ==
    LET r == backWithCallbacks(CurAdapter, <<>>, Cur) IN
    /\ Len(r.eng.historyStack) <= MaxVueHistory
    /\ VueBecomes(r)

\* engine.openOverlay(overlay), engine being the one the adapter returns.
VueOpenOverlay ==
    \E overlay \in VueOverlays :
        /\ Len(overlayStack) < MaxVueOverlays
        /\ VueBecomes(VueCall(CurAdapter, <<>>, openOverlay(Cur, overlay)))

\* The user goes back in the browser: the session history moves to an
\* earlier entry, whose path is any routed one, and popstate is dispatched.
PopState ==
    \E path \in Paths :
        LET r == popstate(CurAdapter, Cur, path) IN
        /\ pendingTimers < MaxVueTimers
        /\ Len(r.eng.historyStack) <= MaxVueHistory
        /\ VueBecomes(r)

\* The oldest zero-delay timer runs.  Until then any other task (a click,
\* a resolved request) runs with the flag still set.
TimerFires ==
    /\ pendingTimers > 0
    /\ isPopStateProcessing' = FALSE
    /\ pendingTimers' = pendingTimers - 1
    /\ UNCHANGED <<prevStackLength, currentRoute, stackVars, indexVars>>

NextVue ==
    \/ VueNavigate
    \/ VueGoBack
    \/ VueOpenOverlay
    \/ PopState
    \/ TimerFires

\* The application under the Vue adapter.
SpecVue == InitVue /\ [][NextVue]_vars

-----------------------------------------------------------------------------
(* Index engine: values.                                                   *)

\* enum NavigationPriority; the engine only compares priorities for equality.
NORMAL == "NORMAL"
POPUP == "POPUP"
FULLSCREEN == "FULLSCREEN"
Priorities == {NORMAL, POPUP, FULLSCREEN}

\* config.defaultPriority ?? NavigationPriority.NORMAL, left at its default.
defaultPriority == NORMAL

Routes == {"a", "b"}
FlowIds == {"pay"}

\* State payloads (options.state): undefined, an object of JSON values
\* such as {step: 1}, and an object holding a Date such as {at: new Date(0)}.
\* JSON.stringify writes a Date as its ISO string, so what is parsed back
\* from the latter is the object of strings "datedAsText".
Payloads == {Null, "plain", "dated"}

\* A NavigationEntry, reduced to the fields the engine reads, compares or
\* stores for the caller: route, priority, flowId and state (Null:
\* undefined).  id and timestamp are written once by navigate and never
\* read by the engine.  An entry without payload:
Entry(route, priority, flowId) ==
    [route |-> route, priority |-> priority, flowId |-> flowId, state |-> Null]

\* NavigationOptions; Null stands for an option left undefined.
OptionSets ==
    [replace : BOOLEAN, skipHistory : BOOLEAN,
     priority : Priorities \cup {Null}, flowId : FlowIds \cup {Null},
     state : {Null}]

\* The options used while writes may fail: default priority, and either a
\* flow tag or a payload or neither.
StoredOptionSets ==
    {o \in [replace : BOOLEAN, skipHistory : BOOLEAN, priority : {Null},
            flowId : FlowIds \cup {Null}, state : Payloads] :
        o.flowId = Null \/ o.state = Null}

\* JSON.stringify of a payload.
stringifyState(x) == IF x = "dated" THEN "datedAsText" ELSE x

\* JSON.stringify of an entry: a key whose value is undefined is left out.
stringifyEntry(en) ==
    LET base == [route |-> en.route, priority |-> en.priority] IN
    IF en.flowId = Null /\ en.state = Null THEN base
    ELSE IF en.state = Null
    THEN [route |-> en.route, priority |-> en.priority, flowId |-> en.flowId]
    ELSE IF en.flowId = Null
    THEN [route |-> en.route, priority |-> en.priority,
          state |-> stringifyState(en.state)]
    ELSE [route |-> en.route, priority |-> en.priority, flowId |-> en.flowId,
          state |-> stringifyState(en.state)]

\* An entry of a parsed snapshot as the engine and its callers read it: a
\* key that is not there reads as undefined.
parsedEntry(j) ==
    [route |-> j.route, priority |-> j.priority,
     flowId |-> IF "flowId" \in DOMAIN j THEN j.flowId ELSE Null,
     state |-> IF "state" \in DOMAIN j THEN j.state ELSE Null]

\* A plausible slip: only the entries up to the current one are written.
stringifyUpToCurrent(h, i) ==
    [history |-> [k \in 1..(i + 1) |-> stringifyEntry(h[k])], currentIndex |-> i]

\* JSON.stringify({history, currentIndex})
stringify(h, i) ==
    [history |-> [k \in 1..Len(h) |-> stringifyEntry(h[k])], currentIndex |-> i]

\* The index engine's fields as one value.
IndexEngine(h, i) == [history |-> h, currentIndex |-> i]

CurIndex == IndexEngine(history, currentIndex)

\* What a call does besides changing the fields: the value left in
\* sessionStorage, the entries passed to the listeners (in order), the value
\* returned (Null for void).
IndexOutcome(e, store, notified, ret) ==
    [eng |-> e, storage |-> store, notified |-> notified, ret |-> ret]

\* history[i] with JavaScript's 0-based index.
at(h, i) == h[i + 1]

\* saveToSessionStorage() with storage enabled and the write succeeding.
saveToSessionStorage(e) == stringify(e.history, e.currentIndex)

-----------------------------------------------------------------------------
(* Index engine: public methods.                                           *)

\* A plausible slip: the forward branch is kept when pushing.
keepForwardBranch(e) == e.history

\* navigate, push: the entries kept before the new one is appended.
truncateForward(e) ==
    IF e.currentIndex < Len(e.history) - 1
    THEN SubSeq(e.history, 1, e.currentIndex + 1)
    ELSE e.history

\* A plausible slip: replace overwrites the last entry.
replacedAtTail(e, entry) == [e EXCEPT !.history[Len(e.history)] = entry]

\* navigate, replace: history[currentIndex] = entry.
replaced(e, entry) == [e EXCEPT !.history[e.currentIndex + 1] = entry]

navigate(e, store, route, options) ==
    LET priority == IF options.priority = Null THEN defaultPriority
                    ELSE options.priority
        entry == [Entry(route, priority, options.flowId)
                      EXCEPT !.state = options.state]
    IN IF options.replace /\ Len(e.history) > 0
       THEN LET e2 == replaced(e, entry)
            IN IndexOutcome(e2, saveToSessionStorage(e2), <<entry>>, Null)
       ELSE IF options.skipHistory
       THEN IndexOutcome(e, store, <<entry>>, Null)
       ELSE LET h == Append(truncateForward(e), entry)
                e2 == IndexEngine(h, Len(h) - 1)
            IN IndexOutcome(e2, saveToSessionStorage(e2), <<entry>>, Null)

\* A plausible slip: the loop over the POPUP entries is left out.
skipNothing(h, targetIndex) == targetIndex

RECURSIVE skipPopups(_, _)
\* The while loop of back()/canGoBack(): the nearest index at or below
\* targetIndex whose entry is not a POPUP, or -1.
skipPopups(h, targetIndex) ==
    IF targetIndex >= 0 /\ at(h, targetIndex).priority = POPUP
    THEN skipPopups(h, targetIndex - 1)
    ELSE targetIndex

\* A successful move of back()/forward() to index i.
movedTo(e, i) ==
    LET e2 == [e EXCEPT !.currentIndex = i]
    IN IndexOutcome(e2, saveToSessionStorage(e2), <<at(e2.history, i)>>, TRUE)

\* A plausible slip: a FULLSCREEN entry is closed the way a POPUP is.
fullscreenBackSkipsPopups(e, store) ==
    LET targetIndex == skipPopups(e.history, e.currentIndex - 1) IN
    IF targetIndex < 0 THEN IndexOutcome(e, store, <<>>, FALSE)
    ELSE movedTo(e, targetIndex)

\* back(), the current entry is FULLSCREEN: always one step down.
fullscreenBack(e, store) == movedTo(e, e.currentIndex - 1)

\* A plausible slip: currentIndex is assigned before the range check.
popupBackMovesFirst(e, store) ==
    LET targetIndex == skipPopups(e.history, e.currentIndex - 1) IN
    IF targetIndex < 0
    THEN IndexOutcome([e EXCEPT !.currentIndex = targetIndex], store,
                      <<>>, FALSE)
    ELSE movedTo(e, targetIndex)

\* back(), the current entry is a POPUP: down to the nearest entry that is
\* not a POPUP; nothing happens when there is none.
popupBack(e, store) ==
    LET targetIndex == skipPopups(e.history, e.currentIndex - 1) IN
    IF targetIndex < 0 THEN IndexOutcome(e, store, <<>>, FALSE)
    ELSE movedTo(e, targetIndex)

back(e, store) ==
    IF e.currentIndex <= 0 THEN IndexOutcome(e, store, <<>>, FALSE)
    ELSE LET current == at(e.history, e.currentIndex) IN
         IF current.priority = FULLSCREEN THEN fullscreenBack(e, store)
         ELSE IF current.priority = POPUP THEN popupBack(e, store)
         ELSE movedTo(e, e.currentIndex - 1)

\* A plausible slip: forward() goes to the newest entry.
forwardToTail(e, store) ==
    IF e.currentIndex >= Len(e.history) - 1
    THEN IndexOutcome(e, store, <<>>, FALSE)
    ELSE movedTo(e, Len(e.history) - 1)

forward(e, store) ==
    IF e.currentIndex >= Len(e.history) - 1
    THEN IndexOutcome(e, store, <<>>, FALSE)
    ELSE movedTo(e, e.currentIndex + 1)

getCurrent(e) ==
    IF e.currentIndex < 0 \/ e.currentIndex >= Len(e.history) THEN NoEntry
    ELSE at(e.history, e.currentIndex)

\* A plausible slip: the predicate looks at the index only.
canGoBackByIndex(e) == e.currentIndex > 0

canGoBack(e) ==
    IF e.currentIndex <= 0 THEN FALSE
    ELSE LET current == at(e.history, e.currentIndex) IN
         IF current.priority = FULLSCREEN THEN TRUE
         ELSE IF current.priority = POPUP
         THEN skipPopups(e.history, e.currentIndex - 1) >= 0
         ELSE e.currentIndex > 0

canGoForward(e) == e.currentIndex < Len(e.history) - 1

\* A plausible slip: the history is cleared without saving the snapshot.
clearHistoryUnsaved(e, store) ==
    IndexOutcome(IndexEngine(<<>>, -1), store, <<>>, Null)

clearHistory(e, store) ==
    LET e2 == IndexEngine(<<>>, -1)
    IN IndexOutcome(e2, saveToSessionStorage(e2), <<>>, Null)

\* A plausible slip: the index is not clamped after the filter.
removeFlowEntriesNoClamp(e, store, flowId) ==
    LET h == SelectSeq(e.history, LAMBDA entry : entry.flowId # flowId)
        e2 == IndexEngine(h, e.currentIndex)
    IN IndexOutcome(e2, saveToSessionStorage(e2), <<>>, Null)

\* A plausible slip: the index is always moved to the new tail.
removeFlowEntriesToTail(e, store, flowId) ==
    LET h == SelectSeq(e.history, LAMBDA entry : entry.flowId # flowId)
        e2 == IndexEngine(h, Len(h) - 1)
    IN IndexOutcome(e2, saveToSessionStorage(e2), <<>>, Null)

removeFlowEntries(e, store, flowId) ==
    LET h == SelectSeq(e.history, LAMBDA entry : entry.flowId # flowId)
        e2 == IndexEngine(h, IF e.currentIndex >= Len(h) THEN Len(h) - 1
                             ELSE e.currentIndex)
    IN IndexOutcome(e2, saveToSessionStorage(e2), <<>>, Null)

-----------------------------------------------------------------------------
(* Index engine: the flow registry.                                        *)

\* flows.get(flowId) === undefined
NoFlowConfig == [undefined |-> TRUE]

\* FlowConfig values, reduced to the id and the keys of states (each state
\* is an object, so every own key holds a truthy value).  Two definitions
\* share the id "pay".
FlowConfigs ==
    { [id |-> "pay", states |-> {"input", "confirm"}],
      [id |-> "pay", states |-> {"input"}] }

\* Keys every object literal inherits from Object.prototype; reading one of
\* them gives a function.
ObjectPrototypeKeys == {"constructor", "toString"}

\* The arguments tried for navigateFlow(flowId, state).
FlowIdArgs == {"pay", "kyc"}
StateArgs == {"input", "confirm", "review", "constructor"}

\* Omit<NavigationOptions, "flowId">
FlowOptionSets ==
    [replace : BOOLEAN, skipHistory : BOOLEAN, priority : {Null, POPUP},
     state : {Null}]

\* registerFlow(config): Map.set, which replaces the value of a key in
\* place and appends a new key.
registerFlow(fl, config) ==
    IF \E i \in 1..Len(fl) : fl[i].id = config.id
    THEN [i \in 1..Len(fl) |-> IF fl[i].id = config.id THEN config ELSE fl[i]]
    ELSE Append(fl, config)

\* flows.get(flowId)
getFlow(fl, flowId) ==
    IF \E i \in 1..Len(fl) : fl[i].id = flowId
    THEN fl[CHOOSE i \in 1..Len(fl) : fl[i].id = flowId]
    ELSE NoFlowConfig

\* !flow.states[state]: the property is read through the prototype chain,
\* so it is missing only for a key that is neither a state nor inherited.
stateMissing(flow, state) ==
    ~(state \in flow.states \/ state \in ObjectPrototypeKeys)

\* navigateFlow(flowId, state, options); threw: an Error left the call.
navigateFlow(e, store, fl, flowId, state, options) ==
    LET flow == getFlow(fl, flowId) IN
    IF flow = NoFlowConfig
    THEN [out |-> IndexOutcome(e, store, <<>>, Null), threw |-> TRUE]
    ELSE IF stateMissing(flow, state)
    THEN [out |-> IndexOutcome(e, store, <<>>, Null), threw |-> TRUE]
    ELSE [out |-> navigate(e, store, flowId \o ":" \o state,
                           [replace |-> options.replace,
                            skipHistory |-> options.skipHistory,
                            priority |-> options.priority,
                            state |-> options.state,
                            flowId |-> flowId]),
          threw |-> FALSE]

-----------------------------------------------------------------------------
(* Index engine: construction over the stored item, failing writes.        *)

\* Values found under the key that the engine did not write: the empty
\* string, a text that is not JSON, the JSON texts null and 7, and objects
\* whose history is not an array or whose currentIndex is not a number.
ForeignItems ==
    { [empty |-> TRUE],
      [unparsable |-> TRUE],
      [literal |-> "null"],
      [literal |-> "7"],
      [historyIsNotArray |-> TRUE, currentIndex |-> 0],
      [history |-> <<>>, currentIndexIsNotNumber |-> TRUE] }

\* A plausible slip: JSON.parse and the reads of the parsed value are not
\* inside try/catch.
restoreUnprotected(store) ==
    IF store = NoItem \/ "empty" \in DOMAIN store
    THEN [eng |-> IndexEngine(<<>>, -1), threw |-> FALSE]
    ELSE IF "unparsable" \in DOMAIN store
    THEN [eng |-> IndexEngine(<<>>, -1), threw |-> TRUE]
    ELSE IF "literal" \in DOMAIN store
    THEN [eng |-> IndexEngine(<<>>, -1), threw |-> store.literal = "null"]
    ELSE IF ~({"history", "currentIndex"} \subseteq DOMAIN store)
    THEN [eng |-> IndexEngine(<<>>, -1), threw |-> FALSE]
    ELSE [eng |-> IndexEngine([k \in 1..Len(store.history) |->
                                  parsedEntry(store.history[k])],
                              store.currentIndex),
          threw |-> FALSE]

\* new NavigationEngine() with storage enabled: the field initialisers,
\* then restoreFromSessionStorage().  Nothing is assigned when the item is
\* missing or empty (if (data)), when JSON.parse or a read of the parsed
\* value throws (caught), or when the parsed value fails the test
\* Array.isArray(history) && typeof currentIndex === "number"; otherwise
\* both fields are taken as they are.  threw: an exception left the
\* constructor.
restoreFromSessionStorage(store) ==
    IF store = NoItem \/ "empty" \in DOMAIN store
    THEN [eng |-> IndexEngine(<<>>, -1), threw |-> FALSE]
    ELSE IF "unparsable" \in DOMAIN store \/ "literal" \in DOMAIN store
    THEN [eng |-> IndexEngine(<<>>, -1), threw |-> FALSE]
    ELSE IF ~({"history", "currentIndex"} \subseteq DOMAIN store)
    THEN [eng |-> IndexEngine(<<>>, -1), threw |-> FALSE]
    ELSE [eng |-> IndexEngine([k \in 1..Len(store.history) |->
                                  parsedEntry(store.history[k])],
                              store.currentIndex),
          threw |-> FALSE]

\* A method whose write to sessionStorage may fail (setItem or
\* JSON.stringify throws).  saveToSessionStorage() is the last statement
\* before the return and catches the exception, so a failing write leaves
\* the stored item as it was and the rest of the outcome as it is.
persisted(store, out, writeFails) ==
    [out |-> IF writeFails THEN [out EXCEPT !.storage = store] ELSE out,
     threw |-> FALSE]

-----------------------------------------------------------------------------
(* Index engine: listeners.                                                *)

\* A plausible slip: the listeners are called without try/catch.
notifyListenersUnprotected(ls, entry) ==
    LET k == firstThrower(ls)
        called == IF k = 0 THEN ls ELSE SubSeq(ls, 1, k)
    IN [received |-> [i \in 1..Len(called) |->
                         [listener |-> called[i], entry |-> entry]],
        threw |-> k # 0]

\* notifyListeners(entry): each listener in insertion order, each call in
\* its own try/catch, so every listener is called and nothing is thrown.
notifyListeners(ls, entry) ==
    [received |-> [i \in 1..Len(ls) |->
                      [listener |-> ls[i], entry |-> entry]],
     threw |-> FALSE]

\* A method called while the listeners ls are registered and store is the
\* stored snapshot.  A method that notifies assigns its fields first, calls
\* notifyListeners next, and saves the snapshot and returns last; an
\* exception leaving notifyListeners would skip the last two.
IndexCall(ls, store, out) ==
    IF out.notified = <<>>
    THEN [eng |-> out.eng, storage |-> out.storage, ret |-> out.ret,
          received |-> <<>>, threw |-> FALSE]
    ELSE LET n == notifyListeners(ls, out.notified[1])
         IN [eng |-> out.eng,
             storage |-> IF n.threw THEN store ELSE out.storage,
             ret |-> IF n.threw THEN Null ELSE out.ret,
             received |-> n.received,
             threw |-> n.threw]

\* addListener(listener): Set.add, no effect on a member.
addListener(ls, listener) ==
    IF includes(ls, listener) THEN ls ELSE Append(ls, listener)

\* The function returned by addListener(listener): Set.delete.
removeListener(ls, listener) == SelectSeq(ls, LAMBDA l : l # listener)

-----------------------------------------------------------------------------
(* Index engine: the state machine.                                        *)

\* The fields and the stored snapshot after a call.
IndexBecomes(out) ==
    /\ history' = out.eng.history
    /\ currentIndex' = out.eng.currentIndex
    /\ storage' = out.storage
    /\ indexListeners' = indexListeners
    /\ indexFlows' = indexFlows
    /\ UNCHANGED <<stackVars, adapterVars>>

Navigate ==
    \E route \in Routes, options \in OptionSets :
        LET out == navigate(CurIndex, storage, route, options) IN
        /\ Len(out.eng.history) <= MaxEntries
        /\ IndexBecomes(out)

Back == IndexBecomes(back(CurIndex, storage))

Forward == IndexBecomes(forward(CurIndex, storage))

ClearHistory == IndexBecomes(clearHistory(CurIndex, storage))

RemoveFlowEntries ==
    \E flowId \in FlowIds \cup {"kyc"} :
        IndexBecomes(removeFlowEntries(CurIndex, storage, flowId))

NextIndex ==
    \/ Navigate
    \/ Back
    \/ Forward
    \/ ClearHistory
    \/ RemoveFlowEntries

\* The engine constructed with nothing stored under the key, no listener
\* registered.
SpecIndex == Init /\ [][NextIndex]_vars

AddListener ==
    \E listener \in ListenerFns :
        /\ indexListeners' = addListener(indexListeners, listener)
        /\ UNCHANGED <<history, currentIndex, storage, indexFlows, stackVars,
                     adapterVars>>

\* A detach function is called; calling it for a listener no longer in the
\* Set changes nothing.
RemoveListener ==
    \E listener \in ListenerFns :
        /\ indexListeners' = removeListener(indexListeners, listener)
        /\ UNCHANGED <<history, currentIndex, storage, indexFlows, stackVars,
                     adapterVars>>

ListenedNavigate ==
    \E route \in Routes, options \in OptionSets :
        LET out == IndexCall(indexListeners, storage,
                             navigate(CurIndex, storage, route, options)) IN
        /\ Len(out.eng.history) <= MaxSubscribedEntries
        /\ IndexBecomes(out)

ListenedBack ==
    IndexBecomes(IndexCall(indexListeners, storage, back(CurIndex, storage)))

ListenedForward ==
    IndexBecomes(IndexCall(indexListeners, storage,
                           forward(CurIndex, storage)))

NextIndexListeners ==
    \/ AddListener
    \/ RemoveListener
    \/ ListenedNavigate
    \/ ListenedBack
    \/ ListenedForward
    \/ ClearHistory
    \/ RemoveFlowEntries

\* The same engine with listeners coming and going.
SpecIndexListeners == Init /\ [][NextIndexListeners]_vars

RegisterFlow ==
    \E config \in FlowConfigs :
        /\ indexFlows' = registerFlow(indexFlows, config)
        /\ UNCHANGED <<history, currentIndex, storage, indexListeners,
                       stackVars,
                     adapterVars>>

NavigateFlow ==
    \E flowId \in FlowIdArgs, state \in StateArgs, options \in FlowOptionSets :
        LET r == navigateFlow(CurIndex, storage, indexFlows, flowId, state,
                              options) IN
        /\ Len(r.out.eng.history) <= MaxFlowEntries
        /\ IndexBecomes(r.out)

FlowsNavigate ==
    \E route \in Routes, options \in OptionSets :
        LET out == navigate(CurIndex, storage, route, options) IN
        /\ options.priority = Null
        /\ Len(out.eng.history) <= MaxFlowEntries
        /\ IndexBecomes(out)

NextIndexFlows ==
    \/ RegisterFlow
    \/ NavigateFlow
    \/ FlowsNavigate
    \/ Back
    \/ Forward
    \/ ClearHistory
    \/ RemoveFlowEntries

\* The same engine with flows registered and navigated.
SpecIndexFlows == Init /\ [][NextIndexFlows]_vars

\* The engine constructed over a missing or foreign item.
InitStored ==
    /\ isInitialized = FALSE
    /\ historyStack = <<>>
    /\ overlayStack = <<>>
    /\ activeFlow = NoCtx
    /\ listeners = <<>>
    /\ storage \in {NoItem} \cup ForeignItems
    /\ history = restoreFromSessionStorage(storage).eng.history
    /\ currentIndex = restoreFromSessionStorage(storage).eng.currentIndex
    /\ indexListeners = <<>>
    /\ indexFlows = <<>>
    /\ AdapterAbsent

\* The page is reloaded: a fresh engine is constructed with the same key.
Reconstruct ==
    /\ history' = restoreFromSessionStorage(storage).eng.history
    /\ currentIndex' = restoreFromSessionStorage(storage).eng.currentIndex
    /\ indexListeners' = <<>>
    /\ indexFlows' = <<>>
    /\ UNCHANGED <<storage, stackVars,
                     adapterVars>>

StoredNavigate ==
    \E options \in StoredOptionSets, writeFails \in BOOLEAN :
        LET out == persisted(storage, navigate(CurIndex, storage, "a", options),
                             writeFails).out IN
        /\ Len(out.eng.history) <= MaxStoredEntries
        /\ IndexBecomes(out)

StoredBack ==
    \E writeFails \in BOOLEAN :
        IndexBecomes(persisted(storage, back(CurIndex, storage),
                               writeFails).out)

StoredForward ==
    \E writeFails \in BOOLEAN :
        IndexBecomes(persisted(storage, forward(CurIndex, storage),
                               writeFails).out)

StoredClearHistory ==
    \E writeFails \in BOOLEAN :
        IndexBecomes(persisted(storage, clearHistory(CurIndex, storage),
                               writeFails).out)

StoredRemoveFlowEntries ==
    \E flowId \in FlowIds, writeFails \in BOOLEAN :
        IndexBecomes(persisted(storage,
                               removeFlowEntries(CurIndex, storage, flowId),
                               writeFails).out)

NextIndexStorage ==
    \/ Reconstruct
    \/ StoredNavigate
    \/ StoredBack
    \/ StoredForward
    \/ StoredClearHistory
    \/ StoredRemoveFlowEntries

\* The engine over a storage key that outlives it.
SpecIndexStorage == InitStored /\ [][NextIndexStorage]_vars

\* Entries as they stand in a stored item.
StoredEntries ==
    { stringifyEntry(Entry("a", NORMAL, Null)),
      stringifyEntry(Entry("b", POPUP, "pay")) }

\* Items that pass the constructor's test, Array.isArray(parsed.history) &&
\* typeof parsed.currentIndex === "number", whoever wrote them: any array of
\* entries with any whole number, in the array's range or not.
ShapedItems ==
    { [history |-> h, currentIndex |-> i] :
        h \in UNION { [1..n -> StoredEntries] : n \in 0..MaxShapedEntries },
        i \in (0 - 2)..(MaxShapedEntries + 1) }

\* The engine constructed over whatever is under the key.
InitRestored ==
    /\ isInitialized = FALSE
    /\ historyStack = <<>>
    /\ overlayStack = <<>>
    /\ activeFlow = NoCtx
    /\ listeners = <<>>
    /\ storage \in {NoItem} \cup ForeignItems \cup ShapedItems
    /\ history = restoreFromSessionStorage(storage).eng.history
    /\ currentIndex = restoreFromSessionStorage(storage).eng.currentIndex
    /\ indexListeners = <<>>
    /\ indexFlows = <<>>
    /\ AdapterAbsent

\* Between two page loads the item under the key is written by something
\* other than this engine (another build of the application, another script
\* of the origin); the engine in memory does not read it again.
StorageWritten ==
    /\ storage' \in {NoItem} \cup ForeignItems \cup ShapedItems
    /\ storage' # storage
    /\ UNCHANGED <<history, currentIndex, indexListeners, indexFlows, stackVars,
                     adapterVars>>

NextIndexRestore ==
    \/ Reconstruct
    \/ StorageWritten

\* Construction alone, over every kind of stored item.
SpecIndexRestore == InitRestored /\ [][NextIndexRestore]_vars

-----------------------------------------------------------------------------
(* Properties of the stack engine (checked under Spec).                    *)

RECURSIVE backs(_, _)
\* The engine after n consecutive handleBack() calls.
backs(e, n) == IF n = 0 THEN e ELSE backs(handleBack(e).eng, n - 1)

RECURSIVE pushSteps(_, _, _)
\* The engine after navigateTo(steps[1]), ..., navigateTo(steps[n]), all push.
pushSteps(e, steps, n) ==
    IF n = 0 THEN e
    ELSE navigateTo(pushSteps(e, steps, n - 1), steps[n], "push").eng

Range(seq) == {seq[i] : i \in 1..Len(seq)}

\* The registered flows (positions in flows) that have page p as a step.
FlowsOf(p) == {i \in 1..Len(flows) : p \in Range(flows[i].steps)}

\* 0-based position of p in a step list without repetition.
Position(steps, p) == (CHOOSE i \in 1..Len(steps) : steps[i] = p) - 1

\* C1: on an engine that was set up, handleBack with overlays open removes
\* exactly the top overlay, calls that overlay's onBack once and no other
\* callback, and leaves historyStack and the flow context alone; so with k
\* overlays open the first k calls dismiss them last-opened first without
\* touching the history stack (only call k+1 can change it).
C1_OverlayBackIsLifo ==
    (isInitialized /\ Len(overlayStack) > 0) =>
        /\ LET out == handleBack(Cur) IN
            /\ out.eng.overlayStack = Front(overlayStack)
            /\ out.called = <<overlayStack[Len(overlayStack)]>>
            /\ out.eng.historyStack = historyStack
            /\ out.eng.activeFlow = activeFlow
        /\ \A j \in 1..Len(overlayStack) :
            LET before == backs(Cur, j - 1)
                out == handleBack(before)
            IN  /\ out.called = <<overlayStack[Len(overlayStack) - j + 1]>>
                /\ out.eng.overlayStack =
                       SubSeq(overlayStack, 1, Len(overlayStack) - j)
                /\ out.eng.historyStack = historyStack
                /\ out.eng.activeFlow = activeFlow

\* C1 happens: two different overlays are open over a page that an ordinary
\* back would leave, and the third handleBack is the one that pops it.
C1_Witness ==
    /\ isInitialized
    /\ Len(overlayStack) = 2
    /\ overlayStack[1] # overlayStack[2]
    /\ backs(Cur, 2).historyStack = historyStack
    /\ backs(Cur, 3).historyStack = Front(historyStack)

\* A flow whose steps are distinct and belong to no other flow.
IsOwnFlow(i) ==
    /\ \A a, b \in 1..Len(flows[i].steps) :
           flows[i].steps[a] = flows[i].steps[b] => a = b
    /\ \A p \in Range(flows[i].steps) : FlowsOf(p) = {i}

\* The starting states of the flow round trip: set up, no overlay, no active
\* flow, a current page, and that page outside every flow.
OutsideFlows ==
    /\ isInitialized
    /\ overlayStack = <<>>
    /\ activeFlow = NoCtx
    /\ getCurrentPage(historyStack) # Null
    /\ FlowsOf(getCurrentPage(historyStack)) = {}

\* C2: from a state with no overlay, no active flow and current page E
\* outside every flow, pushing the steps s0..sk of a flow (distinct steps, in
\* no other flow) and then calling handleBack k+1 times restores the history
\* stack, makes E current again and clears the active flow; after the first
\* push entryPageId is E; and if E is the main page a further handleBack
\* changes nothing.
C2_FlowRoundTrip ==
    OutsideFlows =>
        \A i \in {f \in 1..Len(flows) : IsOwnFlow(f)} :
            \A k \in 0..(Len(flows[i].steps) - 1) :
                LET E == getCurrentPage(historyStack)
                    inFlow == pushSteps(Cur, flows[i].steps, k + 1)
                    home == backs(inFlow, k + 1)
                IN  /\ pushSteps(Cur, flows[i].steps, 1).activeFlow.entryPageId = E
                    /\ home.historyStack = historyStack
                    /\ getCurrentPage(home.historyStack) = E
                    /\ home.activeFlow = NoCtx
                    /\ home.overlayStack = <<>>
                    /\ E = mainPage => handleBack(home).eng = home

\* C2 happens: below the main page lies another page, and the whole
\* three-step flow is entered from here and left again.
C2_Witness ==
    /\ OutsideFlows
    /\ Len(historyStack) = 2
    /\ getCurrentPage(historyStack) = mainPage
    /\ LET inFlow == pushSteps(Cur, flows[1].steps, 3)
       IN  /\ Len(inFlow.historyStack) = 5
           /\ inFlow.activeFlow.currentStepIndex = 2
           /\ backs(inFlow, 3) = Cur

\* The states of a back inside the active flow: set up, no overlay, the
\* current page is step i of the active flow.
AtFlowStep(i) ==
    /\ isInitialized
    /\ overlayStack = <<>>
    /\ activeFlow # NoCtx
    /\ includes(activeFlow.steps, getCurrentPage(historyStack))
    /\ Position(activeFlow.steps, getCurrentPage(historyStack)) = i

\* C3: with no overlay, the current page step 0 of the active flow and
\* entryPageId set, handleBack pops exactly one history entry, clears the
\* active flow, and the page that becomes current is the recorded
\* entryPageId.
C3_FirstStepBackReturnsToEntry ==
    (AtFlowStep(0) /\ activeFlow.entryPageId # Null) =>
        LET out == handleBack(Cur) IN
            /\ out.eng.historyStack = Front(historyStack)
            /\ out.eng.activeFlow = NoCtx
            /\ getCurrentPage(out.eng.historyStack) = activeFlow.entryPageId

\* C4: with no overlay and the current page step i > 0 of the active flow,
\* handleBack pops exactly one history entry, sets currentStepIndex to i-1,
\* and the page that becomes current is step i-1 of that flow.
C4_LaterStepBackReturnsToPreviousStep ==
    \A f \in 1..Len(flows) : \A i \in 1..(Len(flows[f].steps) - 1) :
        AtFlowStep(i) =>
            LET out == handleBack(Cur) IN
                /\ out.eng.historyStack = Front(historyStack)
                /\ out.eng.activeFlow # NoCtx
                /\ out.eng.activeFlow.currentStepIndex = i - 1
                /\ getCurrentPage(out.eng.historyStack) = activeFlow.steps[i]

\* C5: with no overlay, handleBack leaves historyStack, overlayStack and the
\* flow context unchanged (a) on step 0 of the active flow when entryPageId
\* is absent, (b) on the main page when it is not a step of the active flow.
C5_BlockedBackChangesNothing ==
    /\ (AtFlowStep(0) /\ activeFlow.entryPageId = Null) =>
           handleBack(Cur).eng = Cur
    /\ ( /\ isInitialized
         /\ overlayStack = <<>>
         /\ getCurrentPage(historyStack) = mainPage
         /\ (activeFlow = NoCtx \/ ~includes(activeFlow.steps, mainPage)) ) =>
           handleBack(Cur).eng = Cur

\* C5 happens: the first step of a flow entered by replace lies on top of
\* another page, which a generic pop would uncover.
C5_Witness ==
    /\ AtFlowStep(0)
    /\ activeFlow.entryPageId = Null
    /\ Len(historyStack) = 2
    /\ historyStack[1] = "Home"

\* C6: the flow context after navigateTo(p, method) from current page c and
\* context ctx.  p in no registered flow: null.  p a step of the flow that is
\* already active: name and entryPageId kept, currentStepIndex the position
\* of p.  p a step of a registered flow while no flow or another flow is
\* active: a new context, currentStepIndex the position of p, entryPageId c
\* for push and null for replace.
C6_ContextAfterNavigateTo ==
    isInitialized =>
        \A p \in Pages, method \in Methods :
            LET c == getCurrentPage(historyStack)
                ctx == activeFlow
                after == navigateTo(Cur, p, method).eng.activeFlow
            IN  /\ FlowsOf(p) = {} => after = NoCtx
                /\ \A i \in FlowsOf(p) :
                    IF ctx # NoCtx /\ ctx.name = flows[i].name
                    THEN /\ after # NoCtx
                         /\ after.name = ctx.name
                         /\ after.entryPageId = ctx.entryPageId
                         /\ after.currentStepIndex = Position(flows[i].steps, p)
                    ELSE after =
                             [name |-> flows[i].name,
                              steps |-> flows[i].steps,
                              currentStepIndex |-> Position(flows[i].steps, p),
                              entryPageId |->
                                  IF method = "push" THEN c ELSE Null]

\* C6 happens: one flow is active with an entry page recorded, so that a
\* step of the same flow keeps it, a step of the other flow starts a new
\* context and a replace records no entry page.
C6_Witness ==
    /\ isInitialized
    /\ activeFlow # NoCtx
    /\ activeFlow.name = "pay"
    /\ activeFlow.entryPageId = "Home"
    /\ navigateTo(Cur, "Confirm", "replace").eng.activeFlow.entryPageId = "Home"
    /\ navigateTo(Cur, "Kyc", "replace").eng.activeFlow.entryPageId = Null
    /\ navigateTo(Cur, "Kyc", "push").eng.activeFlow.entryPageId =
           getCurrentPage(historyStack)

\* The history stack the clean-up of exitFlow must leave for steps `steps`:
\* the old stack without its longest top run of pages of the flow, then the
\* first step.
IsCleanedUp(after, before, steps) ==
    \E j \in 0..Len(before) :
        /\ \A m \in (j + 1)..Len(before) : before[m] \in Range(steps)
        /\ j > 0 => before[j] \notin Range(steps)
        /\ after = Append(SubSeq(before, 1, j), steps[1])

\* C7: exitFlow(flowName?) with a flow active and flowName omitted or equal
\* to its name: the history stack loses its longest top run of pages of the
\* flow and gets the first step pushed, currentStepIndex becomes 0, and
\* name, steps and entryPageId stay.  With no flow active, or flowName
\* naming another flow: nothing changes and nobody is notified.
C7_ExitFlowResetsToFirstStep ==
    isInitialized =>
        \A flowName \in FlowNameArgs :
            LET out == exitFlow(Cur, flowName) IN
                /\ (activeFlow # NoCtx
                        /\ (flowName = Null \/ flowName = activeFlow.name)) =>
                       /\ IsCleanedUp(out.eng.historyStack, historyStack,
                                      activeFlow.steps)
                       /\ out.eng.activeFlow =
                              [activeFlow EXCEPT !.currentStepIndex = 0]
                       /\ out.eng.overlayStack = overlayStack
                /\ (activeFlow = NoCtx
                        \/ (Truthy(flowName) /\ flowName # activeFlow.name)) =>
                       /\ out.eng = Cur
                       /\ out.notified = 0

\* C7 happens: two steps of the active flow lie on top of the entry page.
C7_Witness ==
    /\ isInitialized
    /\ activeFlow # NoCtx
    /\ activeFlow.name = "pay"
    /\ historyStack = <<"Home", "Input", "Detail">>
    /\ exitFlow(Cur, "pay").eng.historyStack = <<"Home", "Input">>

\* C8: exitFlow twice in a row, same argument, leaves the same historyStack,
\* overlayStack and flow context as exitFlow once.
C8_ExitFlowIdempotent ==
    \A flowName \in FlowNameArgs :
        LET once == exitFlow(Cur, flowName).eng
        IN  exitFlow(once, flowName).eng = once

\* C8 happens: a first exitFlow changes the state (it is no blocked call).
C8_Witness ==
    /\ isInitialized
    /\ activeFlow # NoCtx
    /\ Len(overlayStack) > 0
    /\ exitFlow(Cur, Null).eng # Cur
    /\ Len(exitFlow(Cur, Null).eng.historyStack) < Len(historyStack)

-----------------------------------------------------------------------------
(* Properties of the index engine (checked under SpecIndex).               *)

\* The options of a plain push, with the given priority and flow id.
PushOptions(priority, flowId) ==
    [replace |-> FALSE, skipHistory |-> FALSE, priority |-> priority,
     flowId |-> flowId, state |-> Null]

RECURSIVE pushAll(_, _)
\* The engine after navigate(routes[1]), ..., navigate(routes[n]), no options.
pushAll(e, routes) ==
    IF Len(routes) = 0 THEN e
    ELSE navigate(pushAll(e, Front(routes)), NoItem, routes[Len(routes)],
                  PushOptions(Null, Null)).eng

\* C9: started empty, after any sequence of navigate, back, forward,
\* clearHistory and removeFlowEntries: 0 <= currentIndex < history.length
\* whenever the history is non-empty, and currentIndex = -1 exactly when the
\* history is empty.
C9_IndexWithinHistory ==
    /\ Len(history) > 0 => (0 <= currentIndex /\ currentIndex < Len(history))
    /\ currentIndex = -1 <=> Len(history) = 0

\* C9 happens: entries of a flow lie at and after the current position and
\* are then removed, so the index has to be clamped to the new tail.
C9_Witness ==
    /\ Len(history) = 3
    /\ currentIndex = 1
    /\ history[1].flowId = Null
    /\ history[2].flowId = "pay"
    /\ history[3].flowId = "pay"
    /\ removeFlowEntries(CurIndex, storage, "pay").eng.currentIndex = 0

\* C10: a navigate without replace and without skipHistory at currentIndex i
\* leaves the old entries 0..i followed by the new entry (the old entries
\* after i are gone) and currentIndex = new length - 1.  So N pushes on an
\* empty engine give length N and index N-1, and push A,B,C; back; back;
\* push D gives [A, D].
C10_PushTruncatesForwardBranch ==
    /\ \A route \in Routes, priority \in Priorities \cup {Null},
          flowId \in FlowIds \cup {Null} :
           LET out == navigate(CurIndex, storage, route,
                               PushOptions(priority, flowId))
               entry == Entry(route,
                              IF priority = Null THEN NORMAL ELSE priority,
                              flowId)
           IN  /\ out.eng.history =
                      Append(SubSeq(history, 1, currentIndex + 1), entry)
               /\ out.eng.currentIndex = Len(out.eng.history) - 1
    /\ \A n \in 0..MaxEntries :
           LET e == pushAll(IndexEngine(<<>>, -1), [k \in 1..n |-> "a"])
           IN  Len(e.history) = n /\ e.currentIndex = n - 1
    /\ LET abc == pushAll(IndexEngine(<<>>, -1), <<"A", "B", "C">>)
           atA == back(back(abc, NoItem).eng, NoItem).eng
           e == pushAll(atA, <<"D">>)
       IN  /\ [k \in 1..Len(e.history) |-> e.history[k].route] = <<"A", "D">>
           /\ e.currentIndex = 1

\* C10 happens: the current entry is the first of three, so a push discards
\* two entries.
C10_Witness ==
    /\ Len(history) = 3
    /\ currentIndex = 0
    /\ Len(navigate(CurIndex, storage, "b", PushOptions(Null, Null)).eng.history)
           = 2

\* The entries of a history with the given priorities, oldest first.
WithPriorities(ps) == [k \in 1..Len(ps) |-> Entry("a", ps[k], Null)]

\* The indices below the current one whose entry is not a POPUP.
NonPopupBelow == {j \in 0..(currentIndex - 1) : at(history, j).priority # POPUP}

\* C11: back() on a POPUP entry with currentIndex > 0 moves currentIndex to
\* the largest index below it whose entry is not a POPUP and returns true;
\* when every entry below is a POPUP it returns false and changes nothing.
\* From [NORMAL home, POPUP p1, POPUP p2] at p2 one back() lands on home.
C11_PopupBackSkipsPopups ==
    /\ (currentIndex > 0 /\ at(history, currentIndex).priority = POPUP) =>
           LET out == back(CurIndex, storage) IN
           IF NonPopupBelow = {}
           THEN /\ out.ret = FALSE
                /\ out.eng = CurIndex
                /\ out.storage = storage
                /\ out.notified = <<>>
           ELSE /\ out.ret = TRUE
                /\ out.eng.currentIndex \in NonPopupBelow
                /\ \A j \in NonPopupBelow : j <= out.eng.currentIndex
                /\ out.eng.history = history
    /\ LET e == IndexEngine(WithPriorities(<<NORMAL, POPUP, POPUP>>), 2)
       IN  back(e, NoItem).eng.currentIndex = 0

\* C11 happens: the current entry and the one below it are POPUPs above an
\* entry that is not, and back() lands on that entry.
C11_Witness ==
    /\ Len(history) = 3
    /\ currentIndex = 2
    /\ history[1].priority # POPUP
    /\ history[2].priority = POPUP
    /\ history[3].priority = POPUP
    /\ back(CurIndex, storage).ret = TRUE
    /\ back(CurIndex, storage).eng.currentIndex = 0

\* C12: back() on a FULLSCREEN entry that has an entry before it returns
\* true and lowers currentIndex by exactly one, whatever the priorities of
\* the entries before it.
C12_FullscreenBackIsOneStep ==
    (currentIndex > 0 /\ at(history, currentIndex).priority = FULLSCREEN) =>
        LET out == back(CurIndex, storage) IN
        /\ out.ret = TRUE
        /\ out.eng.currentIndex = currentIndex - 1
        /\ out.eng.history = history

\* C12 happens: a FULLSCREEN entry lies above two POPUPs and back() lands
\* on the POPUP just below it.
C12_Witness ==
    /\ Len(history) = 3
    /\ currentIndex = 2
    /\ history[1].priority = POPUP
    /\ history[2].priority = POPUP
    /\ history[3].priority = FULLSCREEN
    /\ back(CurIndex, storage).ret = TRUE
    /\ back(CurIndex, storage).eng.currentIndex = 1

\* C13: canGoBack() is true exactly when a back() called next would return
\* true, and canGoForward() exactly when a forward() called next would.
\* (The predicates assign no field: they are values of the state.)
C13_PredicatesAgreeWithOperations ==
    /\ canGoBack(CurIndex) = back(CurIndex, storage).ret
    /\ canGoForward(CurIndex) = forward(CurIndex, storage).ret

\* C13 happens: an entry precedes the current one and still neither the
\* predicate nor back() allows going back, while forward is allowed.
C13_Witness ==
    /\ Len(history) = 3
    /\ currentIndex = 1
    /\ ~canGoBack(CurIndex)
    /\ back(CurIndex, storage).ret = FALSE
    /\ canGoForward(CurIndex)
    /\ forward(CurIndex, storage).ret = TRUE

\* C14: back() and forward() leave the history entries as they are; when
\* either returns false, currentIndex and the stored snapshot are unchanged
\* too and no listener is called.
C14_MovesKeepHistory ==
    \A out \in {back(CurIndex, storage), forward(CurIndex, storage)} :
        /\ out.eng.history = history
        /\ out.ret = FALSE =>
               /\ out.eng.currentIndex = currentIndex
               /\ out.storage = storage
               /\ out.notified = <<>>

\* C14 happens: a snapshot is stored, back() is refused on a POPUP above a
\* POPUP and forward() is refused at the last entry.
C14_Witness ==
    /\ Len(history) = 2
    /\ currentIndex = 1
    /\ storage # NoItem
    /\ history[1].priority = POPUP
    /\ history[2].priority = POPUP
    /\ back(CurIndex, storage).ret = FALSE
    /\ forward(CurIndex, storage).ret = FALSE

-----------------------------------------------------------------------------
(* Properties of the stack engine before setup and of its overlay          *)
(* operations (checked under Spec).                                        *)

\* The ids passed to closeOverlay(id): those of the overlay objects (the
\* empty string is one of them) and one that no overlay has.
OverlayIdArgs == {o.id : o \in OverlayObjects} \cup {"menu"}

\* The outcomes of the mutating operations called in the current state.
MutatingCalls ==
    {navigateTo(Cur, pageId, method) : pageId \in Pages, method \in Methods}
    \cup {handleBack(Cur)}
    \cup {exitFlow(Cur, flowName) : flowName \in FlowNameArgs}
    \cup {openOverlay(Cur, overlay) : overlay \in OverlayObjects}
    \cup {closeOverlay(Cur, id) : id \in OverlayIdArgs \cup {Null}}

\* C15: before setup has been called, each of navigateTo, handleBack,
\* exitFlow, openOverlay and closeOverlay signals a usage error and leaves
\* historyStack, overlayStack and the flow context unchanged.
C15_FailFastBeforeSetup ==
    ~isInitialized =>
        \A out \in MutatingCalls : out.threw /\ out.eng = Cur

\* C20: openOverlay appends the overlay on top; closeOverlay(id), for any
\* id supplied (the empty string too), gives the old stack without the
\* overlays of that id, the others in their order, and the old stack when
\* no overlay has that id; closeOverlay() removes only the top (nothing on
\* an empty stack).  Both always notify and leave historyStack and the
\* active flow as they are.
C20_OverlayOperations ==
    /\ \A overlay \in OverlayObjects :
           LET out == openOverlay(Cur, overlay) IN
           /\ out.eng.overlayStack = Append(overlayStack, overlay)
           /\ out.notified = 1
           /\ out.eng.historyStack = historyStack
           /\ out.eng.activeFlow = activeFlow
    /\ \A id \in OverlayIdArgs :
           LET out == closeOverlay(Cur, id) IN
           /\ out.eng.overlayStack =
                  SelectSeq(overlayStack, LAMBDA o : o.id # id)
           /\ out.notified = 1
           /\ out.eng.historyStack = historyStack
           /\ out.eng.activeFlow = activeFlow
    /\ LET out == closeOverlay(Cur, Null) IN
           /\ out.eng.overlayStack = Front(overlayStack)
           /\ out.notified = 1
           /\ out.eng.historyStack = historyStack
           /\ out.eng.activeFlow = activeFlow

-----------------------------------------------------------------------------
(* Properties of the stack engine's listeners (checked under               *)
(* SpecSubscribed).                                                        *)

\* The outcomes of the calls that may change the stacks in the current
\* state: the mutating operations, and setup on an engine not yet set up.
StackCalls ==
    MutatingCalls
    \cup (IF isInitialized THEN {}
          ELSE {setup(Cur, initialPage) : initialPage \in Pages \cup {Null}})

\* The snapshots a call delivered to the listener l, in order.
ReceivedBy(l, c) == SelectSeq(c.received, LAMBDA r : r.listener = l)

\* C16: when a subscribed listener throws during a notification, every
\* other subscribed listener still receives that notification, the caller
\* of the operation sees no exception, and the engine state is the fully
\* applied result of the operation.
C16_StackListenerIsolation ==
    (\E l \in Range(listeners) : Throws(l)) =>
        \A out \in StackCalls :
            out.notified > 0 =>
                LET c == Delivered(listeners, out) IN
                /\ \A l \in Range(listeners) :
                       ~Throws(l) =>
                           ReceivedBy(l, c) =
                               <<[listener |-> l, state |-> getState(out.eng)]>>
                /\ ~c.threw
                /\ c.eng = out.eng

\* C19: subscribe(listener) calls the listener exactly once with the
\* current state; afterwards every operation that changes historyStack or
\* overlayStack calls it with the state after the operation; once its
\* detach function has been called it is not called again, and calling the
\* detach function again has no effect.
C19_SubscribeContract ==
    /\ \A l \in ListenerFns :
           LET sub == subscribe(listeners, Cur, l) IN
           /\ sub.received = <<[listener |-> l, state |-> getState(Cur)]>>
           /\ includes(sub.listeners, l)
    /\ \A l \in Range(listeners), out \in StackCalls :
           (out.eng.historyStack # historyStack
                \/ out.eng.overlayStack # overlayStack) =>
               ReceivedBy(l, Delivered(listeners, out)) =
                   <<[listener |-> l, state |-> getState(out.eng)]>>
    /\ \A l \in ListenerFns :
           LET detached == unsubscribe(listeners, l) IN
           /\ ~includes(detached, l)
           /\ \A out \in StackCalls :
                  ReceivedBy(l, Delivered(detached, out)) = <<>>
           /\ unsubscribe(detached, l) = detached

-----------------------------------------------------------------------------
(* Properties of the index engine's listeners (checked under               *)
(* SpecIndexListeners).                                                    *)

\* P holds of the outcome of every operation that may change history or
\* currentIndex, called in the current state.
EveryIndexOp(P(_)) ==
    /\ \A route \in Routes, options \in OptionSets :
           P(navigate(CurIndex, storage, route, options))
    /\ P(back(CurIndex, storage))
    /\ P(forward(CurIndex, storage))
    /\ P(clearHistory(CurIndex, storage))
    /\ \A flowId \in FlowIds \cup {"kyc"} :
           P(removeFlowEntries(CurIndex, storage, flowId))

\* The entries a call delivered to the listener l, in order.
EntriesFor(l, c) ==
    LET r == SelectSeq(c.received, LAMBDA x : x.listener = l)
    IN [i \in 1..Len(r) |-> r[i].entry]

\* C17: when a registered listener throws during a notification, every
\* other registered listener still receives the same entry, the caller sees
\* no exception, and the operation completes: history and currentIndex are
\* updated, the snapshot is stored and the value is returned.
C17_IndexListenerIsolation ==
    (\E l \in Range(indexListeners) : Throws(l)) =>
        EveryIndexOp(LAMBDA out :
            out.notified # <<>> =>
                LET c == IndexCall(indexListeners, storage, out) IN
                /\ \A l \in Range(indexListeners) :
                       ~Throws(l) => EntriesFor(l, c) = out.notified
                /\ ~c.threw
                /\ c.eng = out.eng
                /\ c.ret = out.ret
                /\ c.storage = out.storage
                /\ c.eng # CurIndex => c.storage = saveToSessionStorage(c.eng))

\* C17 happens: a listener that throws was registered before one that does
\* not, and a back() that moves the index is delivered to the latter.
C17_Witness ==
    /\ indexListeners = <<"faulty", "view">>
    /\ currentIndex = 1
    /\ LET c == IndexCall(indexListeners, storage, back(CurIndex, storage))
       IN  /\ c.ret = TRUE
           /\ c.eng.currentIndex = 0
           /\ EntriesFor("view", c) = <<history[1]>>
           /\ c.storage # storage

\* C18: every operation that changes the history sequence or currentIndex
\* calls every registered listener before it returns, and what a listener
\* is given is the current entry, so that the last entry delivered to a
\* listener registered from the start equals getCurrent().
C18_NotifiedOnEveryChange ==
    EveryIndexOp(LAMBDA out :
        LET c == IndexCall(indexListeners, storage, out) IN
        \A l \in Range(indexListeners) :
            /\ c.eng # CurIndex => EntriesFor(l, c) # <<>>
            /\ EntriesFor(l, c) # <<>> =>
                   EntriesFor(l, c)[Len(EntriesFor(l, c))] = getCurrent(c.eng))

-----------------------------------------------------------------------------
(* Properties of the index engine's stored snapshot, of removeFlowEntries  *)
(* and of the navigate options (checked under SpecIndex).                  *)

\* C21: with storage enabled and the writes succeeding, once an operation
\* that changed history or currentIndex has returned, the snapshot stored
\* under the key is the serialised in-memory (history, currentIndex).
C21_SnapshotInSync ==
    /\ storage = NoItem => (history = <<>> /\ currentIndex = -1)
    /\ storage # NoItem => storage = stringify(history, currentIndex)
    /\ EveryIndexOp(LAMBDA out :
           out.eng # CurIndex =>
               out.storage = stringify(out.eng.history, out.eng.currentIndex))

\* C21 happens: three entries were pushed, one of them tagged with a flow,
\* the index was moved back, and the stored snapshot has followed.
C21_Witness ==
    /\ Len(history) = 3
    /\ currentIndex = 1
    /\ history[2].flowId = "pay"
    /\ storage # NoItem
    /\ storage.currentIndex = 1
    /\ Len(storage.history) = 3

\* C24: removeFlowEntries(flowId) leaves the old history without the
\* entries of that flowId, the others in their order; currentIndex keeps
\* its value unless that is no position of the new history, and then it is
\* the new length - 1 (-1 for an empty history).
C24_RemoveFlowEntries ==
    \A flowId \in FlowIds \cup {"kyc"} :
        LET out == removeFlowEntries(CurIndex, storage, flowId)
            h == out.eng.history
            kept == {k \in 1..Len(history) : history[k].flowId # flowId}
        IN  /\ Len(h) = Cardinality(kept)
            /\ \A k \in 1..Len(h) :
                   \E j \in kept :
                       /\ h[k] = history[j]
                       /\ Cardinality({i \in kept : i < j}) = k - 1
            /\ out.eng.currentIndex =
                   IF currentIndex < Len(h) THEN currentIndex ELSE Len(h) - 1

\* C24 happens: the flow's entry lies after the current one, so the entry
\* goes and the index stays; and a history of flow entries only is emptied.
C24_Witness ==
    \/ /\ Len(history) = 3
       /\ currentIndex = 0
       /\ history[1].flowId = Null
       /\ history[2].flowId = "pay"
       /\ history[3].flowId = Null
       /\ removeFlowEntries(CurIndex, storage, "pay").eng
              = IndexEngine(<<history[1], history[3]>>, 0)
    \/ /\ Len(history) = 2
       /\ currentIndex = 1
       /\ history[1].flowId = "pay"
       /\ history[2].flowId = "pay"
       /\ removeFlowEntries(CurIndex, storage, "pay").eng
              = IndexEngine(<<>>, -1)

\* The options of a navigate with replace set.
ReplaceOptions == {o \in OptionSets : o.replace}

\* The options of a navigate with skipHistory set.
SkipOptions == {o \in OptionSets : o.skipHistory}

\* The entry navigate builds from a route and options.
EntryOf(route, o) ==
    Entry(route, IF o.priority = Null THEN NORMAL ELSE o.priority, o.flowId)

\* C25: navigate with replace on a non-empty history overwrites exactly
\* the entry at currentIndex with the new entry; the length, currentIndex
\* and every other entry, before and after, stay.
C25_ReplaceOverwritesCurrent ==
    Len(history) > 0 =>
        \A route \in Routes, o \in ReplaceOptions :
            LET out == navigate(CurIndex, storage, route, o) IN
            /\ Len(out.eng.history) = Len(history)
            /\ out.eng.currentIndex = currentIndex
            /\ at(out.eng.history, currentIndex) = EntryOf(route, o)
            /\ \A i \in 0..(Len(history) - 1) :
                   i # currentIndex =>
                       at(out.eng.history, i) = at(history, i)

\* C25 happens: the current entry is the middle one of three and a replace
\* puts a different entry there.
C25_Witness ==
    /\ Len(history) = 3
    /\ currentIndex = 1
    /\ history[1] # history[2]
    /\ history[3] # history[2]
    /\ \E route \in Routes, o \in ReplaceOptions :
           /\ EntryOf(route, o) # history[2]
           /\ navigate(CurIndex, storage, route, o).eng.history[2]
                  = EntryOf(route, o)

\* C26: a navigate with skipHistory set, whatever the other options and
\* whatever the history, passes the transient entry to the listeners and
\* leaves history and currentIndex as they are.
C26_SkipHistoryStoresNothing ==
    \A route \in Routes, o \in SkipOptions :
        LET out == navigate(CurIndex, storage, route, o) IN
        /\ out.notified = <<EntryOf(route, o)>>
        /\ out.eng = CurIndex

-----------------------------------------------------------------------------
(* Invariants of the stack engine after setup (checked under Spec).        *)

\* C28: after setup, the active flow context is null exactly when the
\* current page is a step of no registered flow; when it is not null, the
\* current page is a step of the active flow and currentStepIndex is the
\* position of the current page in that flow's steps.
C28_FlowContextMatchesCurrentPage ==
    isInitialized =>
        LET current == getCurrentPage(historyStack) IN
        /\ activeFlow = NoCtx <=> FlowsOf(current) = {}
        /\ activeFlow # NoCtx =>
               /\ includes(activeFlow.steps, current)
               /\ activeFlow.currentStepIndex =
                      Position(activeFlow.steps, current)

\* C29: after setup, a non-null entryPageId of the active flow context is
\* not one of that flow's own steps; and with no context nothing is
\* retained: a push into a flow then records the page pushed from.
C29_EntryPageOutsideFlow ==
    isInitialized =>
        /\ (activeFlow # NoCtx /\ activeFlow.entryPageId # Null) =>
               ~includes(activeFlow.steps, activeFlow.entryPageId)
        /\ activeFlow = NoCtx =>
               \A p \in Pages :
                   LET ctx == navigateTo(Cur, p, "push").eng.activeFlow IN
                   (ctx # NoCtx /\ ctx.entryPageId # Null) =>
                       ctx.entryPageId = getCurrentPage(historyStack)

\* C30: after setup historyStack holds at least one page, so
\* getState().current is never null.
C30_HistoryNeverEmpty ==
    isInitialized =>
        /\ Len(historyStack) >= 1
        /\ getState(Cur).current # Null

-----------------------------------------------------------------------------
(* Properties of the index engine's flows (checked under SpecIndexFlows).  *)

\* C27: navigateFlow(flowId, state) fails with an error, leaving history,
\* currentIndex and the stored snapshot unchanged and calling no listener,
\* when flowId is not registered or state is not a state of the registered
\* flow; otherwise it is navigate to the route "flowId:state" with the
\* entry tagged flowId.  Registering a flow under an id already registered
\* replaces the earlier definition.
C27_NavigateFlow ==
    /\ \A flowId \in FlowIdArgs, state \in StateArgs,
          options \in FlowOptionSets :
           LET r == navigateFlow(CurIndex, storage, indexFlows, flowId, state,
                                 options)
               flow == getFlow(indexFlows, flowId)
           IN  IF flow = NoFlowConfig \/ state \notin flow.states
               THEN /\ r.threw
                    /\ r.out.eng = CurIndex
                    /\ r.out.storage = storage
                    /\ r.out.notified = <<>>
               ELSE /\ ~r.threw
                    /\ r.out =
                           navigate(CurIndex, storage, flowId \o ":" \o state,
                                    [replace |-> options.replace,
                                     skipHistory |-> options.skipHistory,
                                     priority |-> options.priority,
                                     state |-> options.state,
                                     flowId |-> flowId])
                    /\ r.out.notified[1].flowId = flowId
    /\ \A config \in FlowConfigs :
           LET fl == registerFlow(indexFlows, config) IN
           /\ getFlow(fl, config.id) = config
           /\ Len(SelectSeq(fl, LAMBDA f : f.id = config.id)) = 1

-----------------------------------------------------------------------------
(* Properties of the index engine's persistence (checked under             *)
(* SpecIndexStorage).                                                      *)

\* P holds of the outcome of every operation called in the current state,
\* its write succeeding.
EveryStoredOp(P(_)) ==
    /\ \A options \in StoredOptionSets :
           P(navigate(CurIndex, storage, "a", options))
    /\ P(back(CurIndex, storage))
    /\ P(forward(CurIndex, storage))
    /\ P(clearHistory(CurIndex, storage))
    /\ \A flowId \in FlowIds : P(removeFlowEntries(CurIndex, storage, flowId))

\* A fresh engine constructed over store has the getHistory() and the
\* getCurrent() of the engine e.
RestoresTo(store, e) ==
    LET fresh == restoreFromSessionStorage(store).eng IN
    /\ fresh.history = e.history
    /\ getCurrent(fresh) = getCurrent(e)

\* No entry carries a payload that JSON does not represent.
JsonOnly(h) == \A k \in 1..Len(h) : h[k].state # "dated"

\* C22 as stated: in every state reachable by public operations on an
\* engine with storage enabled, a fresh engine constructed with the same
\* key has the getHistory() and getCurrent() of the original.
C22_RoundTrip == RestoresTo(storage, CurIndex)

\* C22, amended: the same for the states reached with every write
\* succeeding and every payload absent or made of JSON values.  The
\* snapshot of such a state restores to it; and from a state that restores,
\* every operation with such a payload whose write succeeds leads to a
\* state that restores (a freshly constructed engine is one by
\* construction).
C22_RoundTripOfJsonSnapshots ==
    /\ (storage = stringify(history, currentIndex) /\ JsonOnly(history)) =>
           RestoresTo(storage, CurIndex)
    /\ (RestoresTo(storage, CurIndex) /\ JsonOnly(history)) =>
           EveryStoredOp(LAMBDA out :
               JsonOnly(out.eng.history) => RestoresTo(out.storage, out.eng))

\* C22 happens: two entries, one with a JSON payload and one tagged with a
\* flow, the current entry not the last, and the snapshot written by the
\* engine restores to exactly that.
C22_Witness ==
    /\ Len(history) = 2
    /\ currentIndex = 0
    /\ history[1].state = "plain"
    /\ history[2].flowId = "pay"
    /\ storage = stringify(history, currentIndex)
    /\ restoreFromSessionStorage(storage).eng = CurIndex

\* C23: constructing an engine over a missing, unparsable or wrongly shaped
\* item throws nothing and gives the empty engine, on which the operations
\* work; and a write that fails during an operation throws nothing to the
\* caller, while the fields are assigned, the listeners notified and the
\* value returned as with a succeeding write.
C23_PersistenceFailuresAreSoft ==
    /\ \A item \in {NoItem} \cup ForeignItems :
           LET r == restoreFromSessionStorage(item) IN
           /\ ~r.threw
           /\ r.eng = IndexEngine(<<>>, -1)
           /\ getCurrent(r.eng) = NoEntry
           /\ back(r.eng, item).ret = FALSE
           /\ forward(r.eng, item).ret = FALSE
           /\ navigate(r.eng, item, "a", PushOptions(Null, Null)).eng
                  = IndexEngine(<<Entry("a", NORMAL, Null)>>, 0)
    /\ EveryStoredOp(LAMBDA out :
           LET p == persisted(storage, out, TRUE) IN
           /\ ~p.threw
           /\ p.out.eng = out.eng
           /\ p.out.notified = out.notified
           /\ p.out.ret = out.ret
           /\ p.out.storage = storage)

\* C23 happens: the engine was constructed over a text that is not JSON,
\* two navigations worked, and their writes failed, the text still there.
C23_Witness ==
    /\ "unparsable" \in DOMAIN storage
    /\ Len(history) = 2
    /\ currentIndex = 1

-----------------------------------------------------------------------------
(* Properties of the index engine's position (checked under SpecIndex).    *)

\* C31: when the current entry is not tagged with the flowId removed,
\* getCurrent() after removeFlowEntries(flowId) is the entry it was
\* before, however many removed entries preceded it.
C31_RemoveFlowEntriesKeepsCurrent ==
    \A flowId \in FlowIds \cup {"kyc"} :
        (getCurrent(CurIndex) # NoEntry
             /\ getCurrent(CurIndex).flowId # flowId) =>
            getCurrent(removeFlowEntries(CurIndex, storage, flowId).eng)
                = getCurrent(CurIndex)

\* C32 as stated: whenever back() returns true, a forward() called next
\* returns true and puts currentIndex (so getCurrent()) back to what it was
\* before the back(), whatever the priority of the current entry.
C32_BackForwardInverse ==
    LET b == back(CurIndex, storage) IN
    b.ret = TRUE =>
        LET f == forward(b.eng, b.storage) IN
        /\ f.ret = TRUE
        /\ f.eng.currentIndex = currentIndex
        /\ getCurrent(f.eng) = getCurrent(CurIndex)

\* C32, amended: whenever back() returns true, a forward() called next
\* returns true and moves one entry up from where back() landed.  That is
\* the position before the back() when the current entry is NORMAL or
\* FULLSCREEN or the entry just below it is not a POPUP; after a back()
\* from a POPUP that skipped POPUPs it is the lowest skipped POPUP, below
\* the position before.
C32_ForwardAfterBack ==
    LET b == back(CurIndex, storage) IN
    b.ret = TRUE =>
        LET f == forward(b.eng, b.storage)
            oneStep == \/ at(history, currentIndex).priority # POPUP
                       \/ at(history, currentIndex - 1).priority # POPUP
        IN  /\ f.ret = TRUE
            /\ f.eng.history = history
            /\ f.eng.currentIndex = b.eng.currentIndex + 1
            /\ oneStep => f.eng = CurIndex
            /\ ~oneStep =>
                   /\ f.eng.currentIndex < currentIndex
                   /\ at(history, f.eng.currentIndex).priority = POPUP

\* C32 happens: back() from a POPUP above a POPUP lands two entries down
\* and forward() comes back up by one only; and back() from a FULLSCREEN
\* entry is undone by forward().
C32_Witness ==
    /\ Len(history) = 3
    /\ currentIndex = 2
    /\ \/ /\ history[2].priority = POPUP
          /\ history[3].priority = POPUP
          /\ back(CurIndex, storage).eng.currentIndex = 0
          /\ forward(back(CurIndex, storage).eng, storage).eng.currentIndex = 1
       \/ /\ history[3].priority = FULLSCREEN
          /\ back(CurIndex, storage).eng.currentIndex = 1
          /\ forward(back(CurIndex, storage).eng, storage).eng = CurIndex

-----------------------------------------------------------------------------
(* Properties of construction (checked under SpecIndexRestore).            *)

\* C33: whatever is stored under the key, the state the constructor adopts
\* has currentIndex = -1 when the history is empty and 0 <= currentIndex <
\* history.length otherwise; so getCurrent() is null only for an empty
\* history, back() reads history[currentIndex] inside the history and
\* navigate with replace writes history[currentIndex] inside it.
C33_RestoredSnapshotIsValid ==
    /\ IF history = <<>> THEN currentIndex = -1
       ELSE 0 <= currentIndex /\ currentIndex < Len(history)
    /\ getCurrent(CurIndex) = NoEntry => history = <<>>
    /\ currentIndex > 0 => currentIndex < Len(history)
    /\ Len(history) > 0 => currentIndex \in 0..(Len(history) - 1)

-----------------------------------------------------------------------------
(* Properties of the Vue adapter (checked under SpecVue).                  *)

\* C34: in every state the interleavings reach, the flag set or not, an
\* application navigate(pageId, "push") that grows the historyStack, to a
\* page whose path differs from the current route, makes the adapter call
\* router.push with that path and nothing else.
C34_AppPushIsRouterPush ==
    \A pageId \in VuePages :
        LET out == navigateTo(Cur, pageId, "push")
            r == VueCall(CurAdapter, <<>>, out)
            targetPath == pageToPath(pageId)
        IN (/\ Len(out.eng.historyStack) > Len(historyStack)
            /\ Truthy(targetPath)
            /\ targetPath # currentRoute) =>
               r.calls = <<[method |-> "push", path |-> targetPath]>>

====
